---- MODULE Spec2Model ----
(***************************************************************************)
(* git-tokens: the scan pipeline of scanner/scanner.go (the channel-based  *)
(* version, lines 1-576).  One command-line invocation is one process: it  *)
(* builds a Scanner (NewScanner), runs ScanAll or ScanSingleRepo and       *)
(* exits.  The sqlite store outlives the process; goroutines and the       *)
(* result channel do not.                                                  *)
(***************************************************************************)
EXTENDS Naturals, Sequences, FiniteSets, TLC

\* ------------------------------------------------------------------ bounds
\* longest commit history of a remote
MaxCommits == 2
\* number of command invocations (processes) in one behaviour
MaxRuns == 2
\* the worker count a command hands to the scanner: concurrentScannerWorkers,
\* 100 in the command line, scaled to the commits a model run can hold
PoolSize == 2
\* store writes that return an error in one behaviour
MaxWriteErrors == 2

\* ------------------------------------------------------------- the remotes
\* the URLs that have a remote and a row in table repositories, or get one
\* by "repo add", and one URL that no command registers
Registered == {"r1", "r2"}
Urls == Registered \cup {"rx"}

\* commit hashes, oldest first; a history of length n is c_n .. c_1
Hashes == <<"c1", "c2", "c3">>

HashSet == {Hashes[i] : i \in 1..Len(Hashes)}

\* the log of a history of n commits, newest first (repo.Log from HEAD)
RECURSIVE LogOf(_)
LogOf(n) == IF n = 0 THEN <<>> ELSE <<Hashes[n]>> \o LogOf(n - 1)

\* the lines of the snapshot of a commit that can hold a secret
TreeOf(hash) ==
    CASE hash = "c1" -> << [FileName |-> "config.yml", LineNumber |-> 1, Content |-> "A"],
                           [FileName |-> "config.yml", LineNumber |-> 2, Content |-> "B"] >>
      [] hash = "c2" -> << >>
      [] OTHER       -> << [FileName |-> "env", LineNumber |-> 1, Content |-> "A"] >>

\* the histories of the two remotes: r1 has up to MaxCommits commits, its
\* sibling r2 none or one
Histories == {h \in [Registered -> 0..MaxCommits] : h["r2"] <= 1}

\* secret_types tables a store can hold, in row order
BadRegex == "("
TypeA == [Name |-> "A key", Regex |-> "A"]
TypeB == [Name |-> "B key", Regex |-> "B"]
TypeBad == [Name |-> "broken", Regex |-> BadRegex]
TypeTables == { <<>>, <<TypeA>>, <<TypeA, TypeB>>, <<TypeBad, TypeA>>, <<TypeA, TypeBad>> }

\* the secret types a "secret-type add" command can name: the three above and
\* the name of the first with another pattern
NewTypes == {TypeA, TypeB, TypeBad, [Name |-> "A key", Regex |-> "B"]}

\* ------------------------------------------------------------------- state
VARIABLES
    repositories,    \* table repositories: set of urls
    secret_types,    \* table secret_types: rows in row order
    scanned_commits, \* table scanned_commits: set of rows
    findings,        \* table findings: set of rows
    history,         \* per url, the number of commits of the remote
    run,             \* the number of the current process
    main,            \* position of the main goroutine
    scanErr,         \* the error ScanAll / ScanSingleRepo returned
    mode,            \* which scan the process runs
    wg,              \* the orchestrator's sync.WaitGroup counter
    chanClosed,      \* scanResultChan has been closed
    agg,             \* storeScanResults: position and the result in hand
    prevAgg,         \* storeScanResults of the scan before, on the same Scanner
    enum,            \* per url, the scanRepo goroutine
    worker,          \* per url and hash, the scanCommit goroutine
    panicked,        \* a goroutine has panicked: the process is about to end
    startStore,      \* the store when the current scan started
    prevRun,         \* what the previous process did
    sentLog,         \* results sent on the channel by the current process
    observed,        \* attempted results the aggregator has received, ever
    jobs,            \* the jobs handed to scanCommit, ever
    markCalls,       \* per url and hash, the AddScannedCommit calls of this process
    started,         \* per url and hash, the go scanCommit statements of this process
    dropped,         \* the store writes that returned an error, ever
    config,          \* the Scanner's workingDirectory and repoPattern
    asked            \* the values the caller last passed to the two setters

storeVars == <<repositories, secret_types, scanned_commits, findings>>
envVars == <<history>>
procVars == <<run, main, scanErr, mode, wg, chanClosed, agg, prevAgg, enum, worker,
              panicked>>
ghostVars == <<startStore, prevRun, sentLog, observed, jobs, markCalls, started, dropped>>
confVars == <<config, asked>>
vars == <<storeVars, envVars, procVars, ghostVars, confVars>>

\* ------------------------------------------------------------ pure helpers
\* regexp.Compile: nil error or not
Compiles(regex) == regex # BadRegex

\* the zero Finding{} an attempted result carries
NoFinding ==
    [LastScannedTimestamp |-> 0, FileName |-> "", LineNumber |-> 0, Content |-> "",
     TreeName |-> "", Repository |-> "", SecretType |-> ""]

\* repo.Grep with one pattern at one commit: the matching lines, TreeName = the hash
Grep(hash, regex) ==
    LET hit == SelectSeq(TreeOf(hash), LAMBDA l : l.Content = regex)
    IN [i \in 1..Len(hit) |->
          [FileName |-> hit[i].FileName, LineNumber |-> hit[i].LineNumber,
           Content |-> hit[i].Content, TreeName |-> hash]]

\* the results scanCommit sends for one secret type: the attempted one, then one
\* per match.  Field st is no field of scanResult: it records the secret type
\* whose iteration sent the result, and only the claims read it
TypeResults(repoUrl, hash, secretType) ==
    LET g == Grep(hash, secretType.Regex)
    IN << [repoUrl |-> repoUrl, commitHash |-> hash, hasFinding |-> FALSE,
           finding |-> NoFinding, st |-> secretType.Name] >>
       \o [i \in 1..Len(g) |->
            [repoUrl |-> repoUrl, commitHash |-> hash, hasFinding |-> TRUE,
             finding |-> [LastScannedTimestamp |-> 0, FileName |-> g[i].FileName,
                          LineNumber |-> g[i].LineNumber, Content |-> g[i].Content,
                          TreeName |-> g[i].TreeName, Repository |-> repoUrl,
                          SecretType |-> secretType.Name],
             st |-> secretType.Name]]

\* the loop of scanCommit: the sequence of sends, cut at the first pattern that
\* does not compile or whose repo.Grep returns an error (return err).  grepErr
\* is the position of the secret type whose Grep fails, 0 when none does
RECURSIVE ScanCommitSends(_, _, _, _)
ScanCommitSends(repoUrl, hash, secretTypes, grepErr) ==
    IF secretTypes = <<>> THEN <<>>
    ELSE IF ~Compiles(Head(secretTypes).Regex) THEN <<>>
    ELSE IF grepErr = 1 THEN <<>>
    ELSE TypeResults(repoUrl, hash, Head(secretTypes))
         \o ScanCommitSends(repoUrl, hash, Tail(secretTypes),
                            IF grepErr = 0 THEN 0 ELSE grepErr - 1)

\* the sends of a scanCommit in which every Grep succeeds
JobResults(repoUrl, hash, secretTypes) == ScanCommitSends(repoUrl, hash, secretTypes, 0)

\* the ForEach callback with its comparison turned around: no commit is new
CommitHasBeenScanned_Always(hash, scannedCommitTreeHashes) == TRUE

\* the ForEach callback without its comparison: every commit is new
CommitHasBeenScanned_Never(hash, scannedCommitTreeHashes) == FALSE

\* the loop in the ForEach callback of scanRepo
CommitHasBeenScanned(hash, scannedCommitTreeHashes) ==
    hash \in scannedCommitTreeHashes

\* SELECT DISTINCT commit_hash FROM scanned_commits WHERE repository = ?
ScannedHashes(rows, repoUrl) ==
    {m.commit_hash : m \in {x \in rows : x.repository = repoUrl}}

\* INSERT OR IGNORE INTO scanned_commits, PRIMARY KEY (repository, commit_hash)
AddScannedCommit(rows, repoUrl, hash, now) ==
    IF \E m \in rows : m.repository = repoUrl /\ m.commit_hash = hash
    THEN rows
    ELSE rows \cup {[repository |-> repoUrl, commit_hash |-> hash, last_scanned_ts |-> now]}

\* the PRIMARY KEY (repository, tree_name) of table findings
FindingKey(row) == <<row.repository, row.tree_name>>

\* INSERT OR REPLACE INTO findings: the row of the key is written anew
AddFinding_Replace(rows, f, now) ==
    LET row == [last_scanned_ts |-> now, repository |-> f.Repository,
                secret_type |-> f.SecretType, tree_name |-> f.TreeName,
                file_name |-> f.FileName, line_number |-> f.LineNumber,
                content |-> f.Content]
    IN {x \in rows : FindingKey(x) # FindingKey(row)} \cup {row}

\* INSERT OR IGNORE INTO findings
AddFinding(rows, f, now) ==
    LET row == [last_scanned_ts |-> now, repository |-> f.Repository,
                secret_type |-> f.SecretType, tree_name |-> f.TreeName,
                file_name |-> f.FileName, line_number |-> f.LineNumber,
                content |-> f.Content]
    IN IF \E x \in rows : FindingKey(x) = FindingKey(row) THEN rows ELSE rows \cup {row}

\* INSERT OR IGNORE INTO repositories(url), PRIMARY KEY url
InsertRepo(rows, url) == rows \cup {url}

\* INSERT OR IGNORE INTO secret_types, PRIMARY KEY name
InsertSecretType(rows, name, regex) ==
    IF \E i \in 1..Len(rows) : rows[i].Name = name
    THEN rows
    ELSE Append(rows, [Name |-> name, Regex |-> regex])

\* workingDirectory and repoPattern as NewScanner sets them
NewScannerConfig == [workingDirectory |-> ".", repoPattern |-> ""]

\* the values a caller passes to WorkingDirectory and to RepoPattern
Directories == {".", "/tmp"}
Patterns == {"", "repo-*"}

\* WorkingDirectory with a pointer receiver: the caller's Scanner is changed
WorkingDirectory_PointerReceiver(s, dir) == [s EXCEPT !.workingDirectory = dir]

\* func (s Scanner) WorkingDirectory: the assignment goes to the copy the
\* value receiver made, the caller's Scanner s is what it was
WorkingDirectory(s, dir) == s

\* RepoPattern with a pointer receiver: the caller's Scanner is changed
RepoPattern_PointerReceiver(s, pattern) == [s EXCEPT !.repoPattern = pattern]

\* func (s Scanner) RepoPattern: the same, for repoPattern
RepoPattern(s, pattern) == s

\* the names a temporary directory can get; two scanRepo run at most, so one
\* name is always free
DirNames == {"d1", "d2"}

\* a scanRepo that clones into one directory of a fixed name
MkdirTemp_SameName(existing) == {"d1"}

\* os.MkdirTemp: it makes a new directory, under a name that no directory
\* on disk has
MkdirTemp(existing) == DirNames \ existing

\* the arguments of os.MkdirTemp(s.workingDirectory, s.repoPattern)
MkdirTempArgs(s) == [dir |-> s.workingDirectory, pattern |-> s.repoPattern]

\* GetRepo that hands back the zero Repository with a nil error
GetRepoFails_Never(repos, url) == FALSE

\* GetRepo: the row of the url, or an error when rows.Scan finds none
GetRepoFails(repos, url) == url \notin repos

\* the error of git.PlainClone dropped
CloneFailed_Ignored(outcome) == FALSE

\* git.PlainClone returned an error
CloneFailed(outcome) == outcome = "fail"

\* the steps of scanRepo other than the clone that can return an error: the
\* query of the scanned commits, rows.Scan, MkdirTemp, Head, Log, and the
\* query and the rows.Scan of GetSecretTypes
ScanRepoErrors == {"query", "rows", "mkdir", "head", "log", "types query", "types rows"}

\* where scanRepo stands when the step of that kind fails
FailsAt(kind) ==
    CASE kind \in {"query", "rows"} -> "start"
      [] kind = "mkdir" -> "mkdir"
      [] kind = "head" -> "head"
      [] kind = "log" -> "log"
      [] OTHER -> "types"

\* defer rows.Close() stands before the check of the Query error, in scanRepo
\* and in GetSecretTypes: on a Query error rows is nil and the deferred Close
\* dereferences it, a panic no one recovers
Panics(kind) == kind \in {"query", "types query"}

\* os.MkdirTemp has returned a directory before the step that fails
DirAcquired(kind) == kind \notin {"query", "rows", "mkdir"}

\* git.PlainClone has returned a repository before the step that fails
ClonedBefore(kind) == kind \in {"head", "log", "types query", "types rows"}

\* scanRepo that removes the directory by a statement at its end only
DeferredRemoveAll_OnlyAtEnd(kind) == IF DirAcquired(kind) THEN "created" ELSE "none"

\* defer os.RemoveAll(dir): the workspace when scanRepo leaves on an error
DeferredRemoveAll(kind) == IF DirAcquired(kind) THEN "removed" ELSE "none"

\* a return on the clone error that forgets wg.Done()
DoneOnCloneError_Forgotten(n) == n

\* the deferred wg.Done() of scanRepo when it returns the clone error
DoneOnCloneError(n) == n - 1

\* scanCommit that calls wg.Done() in its loop and again when it returns
ScanCommitDone_Twice(n) == n - 2

\* scanCommit without its deferred wg.Done()
ScanCommitDone_Missing(n) == n

\* the deferred wg.Done() of scanCommit on scanCommitWaitGroup
ScanCommitDone(n) == n - 1

\* scanRepo with a second wg.Done() on its way out
ScanRepoDone_Twice(n) == n - 2

\* the deferred wg.Done() of scanRepo on the wait group of the orchestrator
ScanRepoDone(n) == n - 1

\* scanRepo without scanCommitWaitGroup.Wait(): it returns at once
ScanCommitsFinished_NoWait(e) == TRUE

\* scanCommitWaitGroup.Wait() of scanRepo returns
ScanCommitsFinished(e) == e.wgc = 0

\* CURRENT_TIMESTAMP of the store, one tick per process
Now == run

NoEnum == [pc |-> "none", idx |-> 0, scanned |-> {}, types |-> <<>>, ws |-> "none",
           dir |-> "", mk |-> <<>>, wgc |-> 0, cloned |-> "no"]

\* no call counted for any (url, hash)
NoCalls == [u \in Registered |-> [h \in HashSet |-> 0]]
NoWorker == [pc |-> "none", sent |-> 0, grepErr |-> 0]
NoAgg == [pc |-> "none", res |-> <<>>]
NoMode == [kind |-> "none", url |-> ""]

\* a loop in storeScanResults that leaves when no result is at hand
RangeEnds_WhenIdle(closed) == TRUE

\* for result := range s.scanResultChan ends: the channel is closed and empty
RangeEnds(closed) == closed

\* ScanAll / ScanSingleRepo without their go s.storeScanResults()
GoStoreScanResults_Missing == NoAgg

\* go s.storeScanResults(): the aggregator waits in its range loop
GoStoreScanResults == [pc |-> "waiting", res |-> <<>>]

\* ---------------------------------------------------------------- initial
\* the state of a new process and its store, but for table repositories
InitRest ==
    /\ secret_types \in TypeTables
    /\ scanned_commits = {}
    /\ findings = {}
    /\ history \in Histories
    /\ run = 1
    /\ main = "idle"
    /\ scanErr = FALSE
    /\ mode = NoMode
    /\ wg = 0
    /\ chanClosed = FALSE
    /\ agg = NoAgg
    /\ prevAgg = NoAgg
    /\ enum = [u \in Registered |-> NoEnum]
    /\ worker = [u \in Registered |-> [h \in HashSet |-> NoWorker]]
    /\ panicked = FALSE
    /\ startStore = [markers |-> {}, findings |-> {}]
    /\ prevRun = [mode |-> NoMode, cloned |-> {}, failed |-> {}]
    /\ sentLog = {}
    /\ observed = {}
    /\ jobs = {}
    /\ markCalls = NoCalls
    /\ started = NoCalls
    /\ dropped = {}
    /\ config = NewScannerConfig
    /\ asked = NewScannerConfig

\* a store in which both remotes are registered
Init ==
    /\ repositories = Registered
    /\ InitRest

\* ------------------------------------------------------------ orchestrator
StartGhost ==
    /\ startStore' = [markers |-> scanned_commits, findings |-> findings]
    /\ sentLog' = {}

\* ScanAll up to wg.Wait(): GetRepos, go storeScanResults, one go scanRepo per repo
ScanAll ==
    /\ main = "idle"
    /\ run <= MaxRuns
    /\ main' = "waiting"
    /\ mode' = [kind |-> "all", url |-> ""]
    /\ agg' = GoStoreScanResults
    /\ enum' = [u \in Registered |->
                  IF u \in repositories THEN [NoEnum EXCEPT !.pc = "start"] ELSE NoEnum]
    /\ wg' = Cardinality(repositories)
    /\ StartGhost
    /\ UNCHANGED <<storeVars, envVars, confVars, prevAgg, run, scanErr, chanClosed, worker, panicked,
                   prevRun, observed, jobs, markCalls, started, dropped>>

\* ScanSingleRepo up to wg.Wait(), or its early return when GetRepo fails
ScanSingleRepo(repoUrl) ==
    /\ main = "idle"
    /\ run <= MaxRuns
    /\ mode' = [kind |-> "single", url |-> repoUrl]
    /\ StartGhost
    /\ IF GetRepoFails(repositories, repoUrl)
       THEN /\ main' = "returned"
            /\ scanErr' = TRUE
            /\ UNCHANGED <<agg, enum, wg>>
       ELSE /\ main' = "waiting"
            /\ agg' = GoStoreScanResults
            /\ enum' = [u \in Registered |->
                          IF u = repoUrl THEN [NoEnum EXCEPT !.pc = "start"] ELSE NoEnum]
            /\ wg' = 1
            /\ UNCHANGED scanErr
    /\ UNCHANGED <<storeVars, envVars, confVars, prevAgg, run, chanClosed, worker, panicked, prevRun,
                   observed, jobs, markCalls, started, dropped>>

\* wg.Wait() returns; close(s.scanResultChan); return nil.  The close of a
\* channel that is closed panics: the main goroutine unwinds and goes no
\* further, the others run until the runtime ends the process
ScanReturn ==
    /\ main = "waiting"
    /\ wg = 0
    /\ IF chanClosed
       THEN /\ panicked' = TRUE
            /\ main' = "panicked"
            /\ UNCHANGED chanClosed
       ELSE /\ chanClosed' = TRUE
            /\ main' = "returned"
            /\ UNCHANGED panicked
    /\ UNCHANGED <<storeVars, envVars, confVars, prevAgg, run, scanErr, mode, wg, agg, enum, worker,
                   ghostVars>>

\* the process ends (os.Exit after the command): every goroutine ends with it;
\* the next command is a new process with a new Scanner.  A behaviour in which
\* the runtime ended the process on a panic ends there
Exit ==
    /\ main = "returned"
    /\ run' = run + 1
    /\ main' = "idle"
    /\ scanErr' = FALSE
    /\ mode' = NoMode
    /\ wg' = 0
    /\ chanClosed' = FALSE
    /\ agg' = NoAgg
    /\ prevAgg' = NoAgg
    /\ enum' = [u \in Registered |-> NoEnum]
    /\ worker' = [u \in Registered |-> [h \in HashSet |-> NoWorker]]
    /\ panicked' = FALSE
    /\ prevRun' = [mode |-> mode,
                   cloned |-> {u \in Registered : enum[u].cloned = "ok"
                                                  /\ enum[u].pc = "done"},
                   failed |-> {u \in Registered : enum[u].cloned = "fail"}]
    /\ markCalls' = NoCalls
    /\ config' = NewScannerConfig
    /\ asked' = NewScannerConfig
    /\ started' = NoCalls
    /\ UNCHANGED <<storeVars, envVars, startStore, sentLog, observed, jobs, dropped>>

\* -------------------------------------------------------------- enumerator
\* scanRepo, the SELECT of the scanned commits and its rows loop
ScanRepoQuery(u) ==
    /\ main = "waiting"
    /\ enum[u].pc = "start"
    /\ enum' = [enum EXCEPT ![u] =
          [@ EXCEPT !.pc = "mkdir", !.scanned = ScannedHashes(scanned_commits, u)]]
    /\ UNCHANGED <<storeVars, envVars, confVars, prevAgg, run, main, scanErr, mode, wg, chanClosed, agg,
                   worker, panicked, ghostVars>>

\* the temporary directories on disk: the ones made and not yet removed
OnDisk == {enum[v].dir : v \in {w \in Registered : enum[w].ws = "created"}}

\* scanRepo, os.MkdirTemp and defer os.RemoveAll(dir)
ScanRepoMkdirTemp(u) ==
    /\ main = "waiting"
    /\ enum[u].pc = "mkdir"
    /\ \E dir \in MkdirTemp(OnDisk) :
         enum' = [enum EXCEPT ![u] =
            [@ EXCEPT !.pc = "cloning", !.ws = "created", !.dir = dir,
                      !.mk = MkdirTempArgs(config)]]
    /\ UNCHANGED <<storeVars, envVars, confVars, prevAgg, run, main, scanErr, mode, wg, chanClosed, agg,
                   worker, panicked, ghostVars>>

\* scanRepo, git.PlainClone returns (the remote answers or not); on the clone
\* error the deferred RemoveAll and wg.Done run
ScanRepoClone(u) ==
    /\ main = "waiting"
    /\ enum[u].pc = "cloning"
    /\ \E outcome \in {"ok", "fail"} :
         IF CloneFailed(outcome)
         THEN /\ enum' = [enum EXCEPT ![u] =
                    [@ EXCEPT !.pc = "failed", !.ws = "removed", !.dir = "",
                              !.cloned = outcome]]
              /\ wg' = DoneOnCloneError(wg)
         ELSE /\ enum' = [enum EXCEPT ![u] = [@ EXCEPT !.pc = "head", !.cloned = outcome]]
              /\ UNCHANGED wg
    /\ UNCHANGED <<storeVars, envVars, confVars, prevAgg, run, main, scanErr, mode, chanClosed, agg, worker,
                   panicked, ghostVars>>

\* scanRepo, repo.Head() on the clone
ScanRepoHead(u) ==
    /\ main = "waiting"
    /\ enum[u].pc = "head"
    /\ enum' = [enum EXCEPT ![u].pc = "log"]
    /\ UNCHANGED <<storeVars, envVars, confVars, prevAgg, run, main, scanErr, mode, wg, chanClosed, agg,
                   worker, panicked, ghostVars>>

\* scanRepo, repo.Log() from the head
ScanRepoLog(u) ==
    /\ main = "waiting"
    /\ enum[u].pc = "log"
    /\ enum' = [enum EXCEPT ![u].pc = "types"]
    /\ UNCHANGED <<storeVars, envVars, confVars, prevAgg, run, main, scanErr, mode, wg, chanClosed, agg,
                   worker, panicked, ghostVars>>

\* scanRepo, s.GetSecretTypes(), up to the start of commits.ForEach
ScanRepoGetSecretTypes(u) ==
    /\ main = "waiting"
    /\ enum[u].pc = "types"
    /\ enum' = [enum EXCEPT ![u] =
          [@ EXCEPT !.pc = IF history[u] = 0 THEN "waiting" ELSE "enumerating",
                    !.idx = 1, !.types = secret_types]]
    /\ UNCHANGED <<storeVars, envVars, confVars, prevAgg, run, main, scanErr, mode, wg, chanClosed, agg,
                   worker, panicked, ghostVars>>

\* one call of the ForEach callback: go scanCommit for a commit not yet scanned
ScanRepoForEach(u) ==
    /\ main = "waiting"
    /\ enum[u].pc = "enumerating"
    /\ LET hash == LogOf(history[u])[enum[u].idx]
           spawn == ~CommitHasBeenScanned(hash, enum[u].scanned)
       IN /\ enum' = [enum EXCEPT ![u] =
                [@ EXCEPT !.idx = @ + 1,
                          !.wgc = IF spawn THEN @ + 1 ELSE @,
                          !.pc = IF enum[u].idx = history[u] THEN "waiting" ELSE @]]
          /\ worker' = IF spawn
                       THEN [worker EXCEPT ![u][hash] = [pc |-> "running", sent |-> 0, grepErr |-> 0]]
                       ELSE worker
          /\ jobs' = IF spawn
                     THEN jobs \cup {[repoUrl |-> u, commitHash |-> hash,
                                      secretTypes |-> enum[u].types]}
                     ELSE jobs
          /\ started' = IF spawn THEN [started EXCEPT ![u][hash] = @ + 1] ELSE started
    /\ UNCHANGED <<storeVars, envVars, confVars, prevAgg, run, main, scanErr, mode, wg, chanClosed, agg,
                   panicked, startStore, prevRun, sentLog, observed, markCalls, dropped>>

\* scanCommitWaitGroup.Wait() returns, return nil: deferred RemoveAll(dir), wg.Done()
ScanRepoFinish(u) ==
    /\ main = "waiting"
    /\ enum[u].pc = "waiting"
    /\ ScanCommitsFinished(enum[u])
    /\ enum' = [enum EXCEPT ![u] = [@ EXCEPT !.pc = "done", !.ws = "removed",
                                                !.dir = ""]]
    /\ wg' = ScanRepoDone(wg)
    /\ UNCHANGED <<storeVars, envVars, confVars, prevAgg, run, main, scanErr, mode, chanClosed, agg, worker,
                   panicked, ghostVars>>

\* ------------------------------------------------------------------ worker
\* the results the scanCommit goroutine of (u, hash) sends, in order
Job(u, hash) == ScanCommitSends(u, hash, enum[u].types, worker[u][hash].grepErr)

\* one send of scanCommit on the unbuffered channel: it completes when
\* storeScanResults receives.  A send on a closed channel panics: the deferred
\* wg.Done() of scanCommit runs while the panic unwinds, the process ends later
ScanCommitSend(u, hash) ==
    /\ main \in {"waiting", "returned"}
    /\ worker[u][hash].pc = "running"
    /\ worker[u][hash].sent < Len(Job(u, hash))
    /\ LET res == Job(u, hash)[worker[u][hash].sent + 1]
       IN IF chanClosed
          THEN /\ panicked' = TRUE
               /\ worker' = [worker EXCEPT ![u][hash].pc = "panicked"]
               /\ enum' = [enum EXCEPT ![u].wgc = ScanCommitDone(@)]
               /\ UNCHANGED <<agg, sentLog, observed>>
          ELSE /\ agg.pc = "waiting"
               /\ agg' = [pc |-> "received", res |-> res]
               /\ worker' = [worker EXCEPT ![u][hash].sent = @ + 1]
               /\ sentLog' = sentLog \cup {res}
               /\ observed' = IF res.hasFinding THEN observed
                              ELSE observed \cup {<<u, hash, res.st>>}
               /\ UNCHANGED <<enum, panicked>>
    /\ UNCHANGED <<storeVars, envVars, confVars, prevAgg, run, main, scanErr, mode, wg,
                   chanClosed, startStore, prevRun, jobs, markCalls, started, dropped>>

\* scanCommit returns (all types done, or a pattern did not compile): wg.Done()
ScanCommitReturn(u, hash) ==
    /\ main \in {"waiting", "returned"}
    /\ worker[u][hash].pc = "running"
    /\ worker[u][hash].sent = Len(Job(u, hash))
    /\ worker' = [worker EXCEPT ![u][hash].pc = "done"]
    /\ enum' = [enum EXCEPT ![u].wgc = ScanCommitDone(@)]
    /\ UNCHANGED <<storeVars, envVars, confVars, prevAgg, run, main, scanErr, mode, wg, chanClosed, agg,
                   panicked, ghostVars>>

\* -------------------------------------------------------------- aggregator
\* storeScanResults, first statement of the loop body: AddScannedCommit
StoreScannedCommit ==
    /\ main \in {"waiting", "returned", "panicked"}
    /\ agg.pc = "received"
    /\ scanned_commits' = AddScannedCommit(scanned_commits, agg.res.repoUrl,
                                           agg.res.commitHash, Now)
    /\ agg' = IF agg.res.hasFinding THEN [agg EXCEPT !.pc = "marked"]
              ELSE [pc |-> "waiting", res |-> <<>>]
    /\ markCalls' = [markCalls EXCEPT ![agg.res.repoUrl][agg.res.commitHash] = @ + 1]
    /\ UNCHANGED <<repositories, secret_types, findings, envVars, confVars, prevAgg, run, main, scanErr, mode,
                   wg, chanClosed, enum, worker, panicked, startStore, prevRun, sentLog,
                   observed, jobs, started, dropped>>

\* storeScanResults, second statement: AddFinding when the result has one
StoreFinding ==
    /\ main \in {"waiting", "returned", "panicked"}
    /\ agg.pc = "marked"
    /\ findings' = AddFinding(findings, agg.res.finding, Now)
    /\ agg' = [pc |-> "waiting", res |-> <<>>]
    /\ UNCHANGED <<repositories, secret_types, scanned_commits, envVars, confVars, prevAgg, run, main,
                   scanErr, mode, wg, chanClosed, enum, worker, panicked, ghostVars>>

\* the range loop of storeScanResults ends on the closed channel
StoreStop ==
    /\ main \in {"waiting", "returned", "panicked"}
    /\ agg.pc = "waiting"
    /\ RangeEnds(chanClosed)
    /\ agg' = [pc |-> "stopped", res |-> <<>>]
    /\ UNCHANGED <<storeVars, envVars, confVars, prevAgg, run, main, scanErr, mode, wg, chanClosed, enum,
                   worker, panicked, ghostVars>>

Next ==
    \/ ScanAll
    \/ \E url \in Urls : ScanSingleRepo(url)
    \/ ScanReturn
    \/ Exit
    \/ \E u \in Registered : ScanRepoQuery(u)
    \/ \E u \in Registered : ScanRepoMkdirTemp(u)
    \/ \E u \in Registered : ScanRepoClone(u)
    \/ \E u \in Registered : ScanRepoHead(u)
    \/ \E u \in Registered : ScanRepoLog(u)
    \/ \E u \in Registered : ScanRepoGetSecretTypes(u)
    \/ \E u \in Registered : ScanRepoForEach(u)
    \/ \E u \in Registered : ScanRepoFinish(u)
    \/ \E u \in Registered, h \in HashSet : ScanCommitSend(u, h)
    \/ \E u \in Registered, h \in HashSet : ScanCommitReturn(u, h)
    \/ StoreScannedCommit
    \/ StoreFinding
    \/ StoreStop

Spec == Init /\ [][Next]_vars

\* the steps of the goroutines of a scan; the commands (ScanAll,
\* ScanSingleRepo) and the end of the process are the user's
GoroutineStep ==
    \/ ScanReturn
    \/ \E u \in Registered : ScanRepoQuery(u)
    \/ \E u \in Registered : ScanRepoMkdirTemp(u)
    \/ \E u \in Registered : ScanRepoClone(u)
    \/ \E u \in Registered : ScanRepoHead(u)
    \/ \E u \in Registered : ScanRepoLog(u)
    \/ \E u \in Registered : ScanRepoGetSecretTypes(u)
    \/ \E u \in Registered : ScanRepoForEach(u)
    \/ \E u \in Registered : ScanRepoFinish(u)
    \/ \E u \in Registered, h \in HashSet : ScanCommitSend(u, h)
    \/ \E u \in Registered, h \in HashSet : ScanCommitReturn(u, h)
    \/ StoreScannedCommit
    \/ StoreFinding
    \/ StoreStop

\* ------------------------------------------------------------------ errors
\* scanRepo returning on an error other than the clone error, at the step
\* where it stands: the deferred calls run (RemoveAll when the directory
\* exists, wg.Done), also when the deferred rows.Close() panics on nil rows;
\* the process ends later
ScanRepoError(u) ==
    /\ main = "waiting"
    /\ \E kind \in ScanRepoErrors :
         /\ enum[u].pc = FailsAt(kind)
         /\ enum' = [enum EXCEPT ![u] =
               [@ EXCEPT !.pc = IF Panics(kind) THEN "panicked" ELSE "failed",
                         !.ws = DeferredRemoveAll(kind),
                         !.dir = IF DeferredRemoveAll(kind) = "created" THEN @ ELSE ""]]
         /\ panicked' = (panicked \/ Panics(kind))
    /\ wg' = wg - 1
    /\ UNCHANGED <<storeVars, envVars, confVars, prevAgg, run, main, scanErr, mode, chanClosed,
                   agg, worker, ghostVars>>

\* the runtime ends the process of which a goroutine has panicked, once the
\* deferred calls of that goroutine have run: every goroutine ends with it
ProcessDies ==
    /\ panicked
    /\ main # "crashed"
    /\ main' = "crashed"
    /\ UNCHANGED <<storeVars, envVars, confVars, run, scanErr, mode, wg, chanClosed, agg,
                   prevAgg, enum, worker, panicked, ghostVars>>

\* scanCommit when repo.Grep returns an error for the secret type it has come
\* to: it is logged, scanCommit returns the error and its deferred wg.Done runs
ScanCommitGrepError(u, hash) ==
    /\ main \in {"waiting", "returned"}
    /\ worker[u][hash].pc = "running"
    /\ \E i \in 1..Len(enum[u].types) :
         /\ \A k \in 1..i : Compiles(enum[u].types[k].Regex)
         /\ worker[u][hash].sent = Len(JobResults(u, hash, SubSeq(enum[u].types, 1, i - 1)))
         /\ worker' = [worker EXCEPT ![u][hash] = [@ EXCEPT !.pc = "done", !.grepErr = i]]
    /\ enum' = [enum EXCEPT ![u].wgc = ScanCommitDone(@)]
    /\ UNCHANGED <<storeVars, envVars, confVars, prevAgg, run, main, scanErr, mode, wg, chanClosed, agg,
                   panicked, ghostVars>>

\* the steps of ScanAll / ScanSingleRepo that can return an error before any
\* goroutine is started: the query of GetRepos / GetRepo and its rows.Scan
GetReposErrors == {"query", "rows"}

\* ScanAll when GetRepos fails: return err before go storeScanResults; on a
\* Query error the deferred rows.Close() of GetRepos panics on nil rows
ScanAllError ==
    /\ main = "idle"
    /\ run <= MaxRuns
    /\ mode' = [kind |-> "all", url |-> ""]
    /\ StartGhost
    /\ \E kind \in GetReposErrors :
         IF Panics(kind)
         THEN main' = "panicked" /\ panicked' = TRUE /\ UNCHANGED scanErr
         ELSE main' = "returned" /\ scanErr' = TRUE /\ UNCHANGED panicked
    /\ UNCHANGED <<storeVars, envVars, confVars, prevAgg, run, wg, chanClosed, agg, enum,
                   worker, prevRun, observed, jobs, markCalls, started, dropped>>

\* ScanSingleRepo when GetRepo fails on a store error: return err before go
\* storeScanResults when rows.Scan cannot read the row; on a Query error the
\* deferred rows.Close() of GetRepo panics on nil rows
ScanSingleRepoError(repoUrl) ==
    /\ main = "idle"
    /\ run <= MaxRuns
    /\ mode' = [kind |-> "single", url |-> repoUrl]
    /\ StartGhost
    /\ \E kind \in GetReposErrors :
         IF Panics(kind)
         THEN main' = "panicked" /\ panicked' = TRUE /\ UNCHANGED scanErr
         ELSE main' = "returned" /\ scanErr' = TRUE /\ UNCHANGED panicked
    /\ UNCHANGED <<storeVars, envVars, confVars, prevAgg, run, wg, chanClosed, agg, enum,
                   worker, prevRun, observed, jobs, markCalls, started, dropped>>

\* storeScanResults, first statement, when AddScannedCommit returns an error:
\* it is logged and the loop goes on
StoreScannedCommitFails ==
    /\ main \in {"waiting", "returned", "panicked"}
    /\ agg.pc = "received"
    /\ Cardinality(dropped) < MaxWriteErrors
    /\ dropped' = dropped \cup {[table |-> "scanned_commits", run |-> run,
                                 repoUrl |-> agg.res.repoUrl,
                                 commitHash |-> agg.res.commitHash,
                                 n |-> Cardinality(dropped) + 1]}
    /\ agg' = IF agg.res.hasFinding THEN [agg EXCEPT !.pc = "marked"]
              ELSE [pc |-> "waiting", res |-> <<>>]
    /\ markCalls' = [markCalls EXCEPT ![agg.res.repoUrl][agg.res.commitHash] = @ + 1]
    /\ UNCHANGED <<storeVars, envVars, confVars, prevAgg, run, main, scanErr, mode, wg, chanClosed, enum,
                   worker, panicked, startStore, prevRun, sentLog, observed, jobs,
                   started>>

\* storeScanResults, second statement, when AddFinding returns an error: it is
\* logged and the loop goes on
StoreFindingFails ==
    /\ main \in {"waiting", "returned", "panicked"}
    /\ agg.pc = "marked"
    /\ Cardinality(dropped) < MaxWriteErrors
    /\ dropped' = dropped \cup {[table |-> "findings", run |-> run,
                                 repoUrl |-> agg.res.repoUrl,
                                 commitHash |-> agg.res.commitHash,
                                 n |-> Cardinality(dropped) + 1]}
    /\ agg' = [pc |-> "waiting", res |-> <<>>]
    /\ UNCHANGED <<storeVars, envVars, confVars, prevAgg, run, main, scanErr, mode, wg, chanClosed, enum,
                   worker, panicked, startStore, prevRun, sentLog, observed, jobs,
                   markCalls, started>>

\* the scans with the errors the reads of a scan can meet: the store and git
\* reads of scanRepo, the Grep of scanCommit, GetRepos and GetRepo
NextRepoErrors ==
    \/ Next
    \/ \E u \in Registered : ScanRepoError(u)
    \/ \E u \in Registered, h \in HashSet : ScanCommitGrepError(u, h)
    \/ ScanAllError
    \/ \E url \in Urls : ScanSingleRepoError(url)
    \/ ProcessDies

SpecRepoErrors == Init /\ [][NextRepoErrors]_vars

\* the Go scheduler runs some goroutine as long as one can take a step, and
\* the runtime ends a process of which a goroutine has panicked.  That an
\* operation fails is up to the store and the remote: no fairness
Fairness == WF_vars(GoroutineStep) /\ WF_vars(ProcessDies)

\* the scans under fair scheduling, every operation of scanRepo, scanCommit,
\* GetRepos and GetRepo returning, with an error or without
FairSpec == SpecRepoErrors /\ Fairness

\* the scans with the write errors the aggregator can meet
NextWriteErrors ==
    \/ Next
    \/ StoreScannedCommitFails
    \/ StoreFindingFails

SpecWriteErrors == Init /\ [][NextWriteErrors]_vars

\* ----------------------------------------------------- one Scanner, reused
\* a caller that keeps the Scanner after a scan has returned to it: the fields
\* of the Scanner, the channel among them, stay as the scan left them, and the
\* next scan is called on it.  ScanAll / ScanSingleRepo return right after the
\* close, so the storeScanResults of the scan may still hold its last result
\* or not have left its loop: it goes on beside the next scan
KeepScanner ==
    /\ main = "returned"
    /\ main' = "idle"
    /\ scanErr' = FALSE
    /\ mode' = NoMode
    /\ prevAgg' = IF agg.pc \in {"waiting", "received", "marked"} THEN agg ELSE prevAgg
    /\ agg' = NoAgg
    /\ enum' = [u \in Registered |-> NoEnum]
    /\ worker' = [u \in Registered |-> [h \in HashSet |-> NoWorker]]
    /\ markCalls' = NoCalls
    /\ started' = NoCalls
    /\ prevRun' = [mode |-> mode, cloned |-> {}, failed |-> {}]
    /\ UNCHANGED <<storeVars, envVars, confVars, run, wg, chanClosed, panicked, startStore,
                   sentLog, observed, jobs, dropped>>

\* storeScanResults of the scan before, first statement: AddScannedCommit
PrevStoreScannedCommit ==
    /\ main \in {"idle", "waiting", "returned", "panicked"}
    /\ prevAgg.pc = "received"
    /\ scanned_commits' = AddScannedCommit(scanned_commits, prevAgg.res.repoUrl,
                                           prevAgg.res.commitHash, Now)
    /\ prevAgg' = IF prevAgg.res.hasFinding THEN [prevAgg EXCEPT !.pc = "marked"]
                  ELSE [pc |-> "waiting", res |-> <<>>]
    /\ UNCHANGED <<repositories, secret_types, findings, envVars, confVars, run, main, scanErr,
                   mode, wg, chanClosed, agg, enum, worker, panicked, ghostVars>>

\* storeScanResults of the scan before, second statement: AddFinding
PrevStoreFinding ==
    /\ main \in {"idle", "waiting", "returned", "panicked"}
    /\ prevAgg.pc = "marked"
    /\ findings' = AddFinding(findings, prevAgg.res.finding, Now)
    /\ prevAgg' = [pc |-> "waiting", res |-> <<>>]
    /\ UNCHANGED <<repositories, secret_types, scanned_commits, envVars, confVars, run, main,
                   scanErr, mode, wg, chanClosed, agg, enum, worker, panicked, ghostVars>>

\* storeScanResults of the scan before: its range loop ends on the closed channel
PrevStoreStop ==
    /\ main \in {"idle", "waiting", "returned", "panicked"}
    /\ prevAgg.pc = "waiting"
    /\ RangeEnds(chanClosed)
    /\ prevAgg' = [pc |-> "stopped", res |-> <<>>]
    /\ UNCHANGED <<storeVars, envVars, confVars, run, main, scanErr, mode, wg, chanClosed, agg,
                   enum, worker, panicked, ghostVars>>

\* scans by commands and scans by a caller that keeps its Scanner
NextReuse ==
    \/ Next
    \/ KeepScanner
    \/ PrevStoreScannedCommit
    \/ PrevStoreFinding
    \/ PrevStoreStop
    \/ ProcessDies

SpecReuse == Init /\ [][NextReuse]_vars

\* ------------------------------------------------------------ the setters
\* a caller calls s.WorkingDirectory(dir) on its Scanner before a scan
CallWorkingDirectory(dir) ==
    /\ main = "idle"
    /\ run <= MaxRuns
    /\ config' = WorkingDirectory(config, dir)
    /\ asked' = [asked EXCEPT !.workingDirectory = dir]
    /\ UNCHANGED <<storeVars, envVars, procVars, ghostVars>>

\* a caller calls s.RepoPattern(pattern) on its Scanner before a scan
CallRepoPattern(pattern) ==
    /\ main = "idle"
    /\ run <= MaxRuns
    /\ config' = RepoPattern(config, pattern)
    /\ asked' = [asked EXCEPT !.repoPattern = pattern]
    /\ UNCHANGED <<storeVars, envVars, procVars, ghostVars>>

\* scans on a Scanner whose setters the caller may have called
NextConfig ==
    \/ Next
    \/ \E dir \in Directories : CallWorkingDirectory(dir)
    \/ \E pattern \in Patterns : CallRepoPattern(pattern)

SpecConfig == Init /\ [][NextConfig]_vars

\* ------------------------------------------------------- secret-type add
\* the command "secret-type add": a process that builds a Scanner, calls
\* AddSecretType and exits
AddSecretType(Name, Regex) ==
    /\ main = "idle"
    /\ run <= MaxRuns
    /\ secret_types' = InsertSecretType(secret_types, Name, Regex)
    /\ run' = run + 1
    /\ prevRun' = [mode |-> NoMode, cloned |-> {}, failed |-> {}]
    /\ UNCHANGED <<repositories, scanned_commits, findings, envVars, confVars, prevAgg, main, scanErr, mode,
                   wg, chanClosed, agg, enum, worker, panicked, startStore, sentLog,
                   observed, jobs, markCalls, started, dropped>>

\* the command "repo add": a process that builds a Scanner, calls AddRepo and
\* exits
AddRepo(URL) ==
    /\ main = "idle"
    /\ run <= MaxRuns
    /\ repositories' = InsertRepo(repositories, URL)
    /\ run' = run + 1
    /\ prevRun' = [mode |-> NoMode, cloned |-> {}, failed |-> {}]
    /\ UNCHANGED <<secret_types, scanned_commits, findings, envVars, confVars, main, scanErr,
                   mode, wg, chanClosed, agg, prevAgg, enum, worker, panicked, startStore,
                   sentLog, observed, jobs, markCalls, started, dropped>>

\* the tables repositories a store can hold when a command starts
RepoTables == {{"r1"}, Registered}

\* a store in which r2 is registered or not yet
InitAdmin ==
    /\ repositories \in RepoTables
    /\ InitRest

\* scans and registrations of repositories and secret types in any order
NextAdmin ==
    \/ Next
    \/ \E t \in NewTypes : AddSecretType(t.Name, t.Regex)
    \/ \E url \in Registered : AddRepo(url)

SpecAdmin == InitAdmin /\ [][NextAdmin]_vars

\* ------------------------------------------------------------- vocabulary
\* the hashes of the log of u, and the ones with no marker when the scan started
LogHashes(u) == {LogOf(history[u])[i] : i \in 1..history[u]}
StartScanned(u) == ScannedHashes(startStore.markers, u)
Unscanned(u) == LogHashes(u) \ StartScanned(u)
Scanning == main \in {"waiting", "returned"}
ScanRepoRunning(u) ==
    enum[u].pc \in {"start", "mkdir", "cloning", "head", "log", "types", "enumerating",
                    "waiting"}
InHand(res) == agg.pc \in {"received", "marked"} /\ agg.res = res
MarkerRows(rows, u, h) == {m \in rows : m.repository = u /\ m.commit_hash = h}
HasFindingRow(f) ==
    \E x \in findings :
        /\ x.repository = f.Repository /\ x.tree_name = f.TreeName
        /\ x.secret_type = f.SecretType /\ x.file_name = f.FileName
        /\ x.line_number = f.LineNumber /\ x.content = f.Content

\* ------------------------------------------------------------------ claims
\* C1: a scanned-commit marker of (repository, commit) is in the store only if
\* the aggregator has received the attempted result of every secret type that
\* the commit's job carries.
C1_MarkerOnlyAfterAllTypes ==
    \A m \in scanned_commits :
        \E j \in jobs :
            /\ j.repoUrl = m.repository
            /\ j.commitHash = m.commit_hash
            /\ \A i \in 1..Len(j.secretTypes) :
                 <<m.repository, m.commit_hash, j.secretTypes[i].Name>> \in observed

\* C2: the result channel is closed only after every scanRepo and every
\* scanCommit of the scan has finished, and no send meets a closed channel.
C2_CloseAfterAllFinished ==
    /\ ~panicked
    /\ chanClosed =>
         \A u \in Registered :
            /\ enum[u].pc \in {"none", "done", "failed"}
            /\ \A h \in HashSet : worker[u][h].pc \in {"none", "done"}

\* a scan was closed after a worker that sent results had finished
C2_Witness ==
    /\ chanClosed
    /\ \E u \in Registered, h \in HashSet :
         worker[u][h].pc = "done" /\ worker[u][h].sent > 1

\* C3: when a scan has returned without error, every commit of the log of
\* every repository whose scanRepo returned nil has exactly one row in
\* scanned_commits, whether or not it produced findings.
C3_AllCommitsMarkedAfterScan ==
    (main = "returned" /\ ~scanErr) =>
        \A u \in Registered :
            enum[u].pc = "done" =>
                \A h \in LogHashes(u) :
                    Cardinality(MarkerRows(scanned_commits, u, h)) = 1

\* C4: a commit whose hash is in the repository's scanned-commit set when the
\* scan starts gets no scanCommit during that scan.
C4_ScannedNeverResubmitted ==
    \A u \in Registered, h \in HashSet :
        worker[u][h].pc # "none" => h \notin StartScanned(u)

\* a scan has walked a log in which one commit was already scanned and
\* skipped, and another one was not and got its worker
C4_Witness ==
    \E u \in Registered :
        /\ enum[u].pc = "done"
        /\ \E h \in LogHashes(u) : h \in StartScanned(u) /\ worker[u][h].pc = "none"
        /\ \E h \in LogHashes(u) : h \notin StartScanned(u) /\ worker[u][h].pc = "done"

\* C5: in a ScanSingleRepo(url) that follows a ScanSingleRepo(url) of the same
\* url, both with a working clone and an unchanged history, the store stays
\* what it was when the second scan started.
C5_SecondScanAddsNothing ==
    ( /\ mode.kind = "single"
      /\ prevRun.mode = mode
      /\ mode.url \in prevRun.cloned
      /\ Scanning ) =>
        /\ scanned_commits = startStore.markers
        /\ findings = startStore.findings

\* C6: every finding result the aggregator has finished storing has its own
\* row in findings, also when another finding of the same (repository,
\* commit) was inserted before it.
C6_DistinctFindingsRetained ==
    Scanning =>
        \A res \in sentLog :
            (res.hasFinding /\ ~InHand(res)) => HasFindingRow(res.finding)

\* C7: when ScanSingleRepo or ScanAll has returned, every result sent on the
\* channel is persisted: its marker is in scanned_commits and its finding, if
\* it has one, is in findings.
C7_PersistedAtReturn ==
    main = "returned" =>
        \A res \in sentLog :
            /\ MarkerRows(scanned_commits, res.repoUrl, res.commitHash) # {}
            /\ res.hasFinding => HasFindingRow(res.finding)

\* what one repository's scan leaves in the store when it runs alone to its
\* end: the rows it started with, a marker for every unscanned commit whose
\* job sends a result, and the first finding of each such commit
FirstFindingOf(results) ==
    LET f == SelectSeq(results, LAMBDA r : r.hasFinding)
    IN IF f = <<>> THEN {} ELSE {f[1].finding}
AloneMarkers(u) ==
    {m \in startStore.markers : m.repository = u}
    \cup {[repository |-> u, commit_hash |-> h, last_scanned_ts |-> Now] :
            h \in {x \in Unscanned(u) : JobResults(u, x, secret_types) # <<>>}}
AloneFindings(u) ==
    {x \in startStore.findings : x.repository = u}
    \cup {[last_scanned_ts |-> Now, repository |-> f.Repository,
           secret_type |-> f.SecretType, tree_name |-> f.TreeName,
           file_name |-> f.FileName, line_number |-> f.LineNumber,
           content |-> f.Content] :
            f \in UNION {FirstFindingOf(JobResults(u, h, secret_types)) :
                           h \in {x \in Unscanned(u) :
                                    \A y \in startStore.findings :
                                        FindingKey(y) # <<u, x>>}}}
SomeCloneFailed == mode.kind = "all" /\ \E u \in Registered : enum[u].cloned = "fail"
Cloned == {u \in Registered : enum[u].cloned = "ok"}

\* C8: in a ScanAll in which some clone fails, the failed scanRepo releases the
\* wait group, so ScanAll returns once the others are done; when it has
\* returned every unscanned commit of every cloned repository has had its
\* scanCommit, and when the aggregator has drained the channel the rows of a
\* cloned repository are the ones its scan leaves when it runs alone.
C8_CloneFailureIsolated ==
    SomeCloneFailed =>
        /\ main = "waiting" =>
             wg = Cardinality({u \in Registered :
                                 ScanRepoRunning(u)})
        /\ main = "returned" =>
             \A u \in Cloned :
                /\ enum[u].pc = "done"
                /\ \A h \in Unscanned(u) : worker[u][h].pc = "done"
        /\ agg.pc = "stopped" =>
             \A u \in Cloned :
                /\ {m \in scanned_commits : m.repository = u} = AloneMarkers(u)
                /\ {x \in findings : x.repository = u} = AloneFindings(u)

\* a ScanAll has ended in which one clone failed and the other repository
\* was scanned and left a finding
C8_Witness ==
    /\ SomeCloneFailed
    /\ agg.pc = "stopped"
    /\ \E u \in Cloned :
         /\ \E h \in Unscanned(u) : worker[u][h].pc = "done"
         /\ \E x \in findings : x.repository = u /\ x.last_scanned_ts = Now

\* C9: a scanRepo whose clone failed has ended with its error, has started no
\* scanCommit and has left the repository's markers and findings as they
\* were when the scan started; in a later scan that clones the repository,
\* every commit without a marker gets its scanCommit.
C9_CloneFailureWritesNothing ==
    /\ \A u \in Registered :
         enum[u].cloned = "fail" =>
            /\ enum[u].pc = "failed"
            /\ \A h \in HashSet : worker[u][h].pc = "none"
            /\ {m \in scanned_commits : m.repository = u}
                 = {m \in startStore.markers : m.repository = u}
            /\ {x \in findings : x.repository = u}
                 = {x \in startStore.findings : x.repository = u}
    /\ \A u \in prevRun.failed :
         (enum[u].cloned = "ok" /\ enum[u].pc \in {"waiting", "done"}) =>
            \A h \in Unscanned(u) : worker[u][h].pc # "none"

\* a clone failed in a scan in which the sibling repository wrote rows, and
\* the repository had failed to clone in the scan before as well
C9_Witness ==
    \E u \in Registered :
        /\ enum[u].cloned = "fail"
        /\ history[u] > 0
        /\ scanned_commits # startStore.markers
        /\ findings # startStore.findings

\* a repository whose clone failed in the scan before is scanned now
C9_RetryWitness ==
    \E u \in prevRun.failed :
        /\ enum[u].pc = "done"
        /\ \E h \in Unscanned(u) : worker[u][h].pc = "done"

\* C10: ScanSingleRepo of a url that is no row of repositories returns an
\* error and does nothing else: no aggregator, no scanRepo, no clone, no
\* store write, no close of the channel.
C10_UnregisteredScanDoesNothing ==
    (mode.kind = "single" /\ mode.url \notin repositories) =>
        /\ main = "returned"
        /\ scanErr
        /\ agg = NoAgg
        /\ wg = 0
        /\ ~chanClosed
        /\ \A u \in Registered :
             /\ enum[u] = NoEnum
             /\ \A h \in HashSet : worker[u][h] = NoWorker
        /\ scanned_commits = startStore.markers
        /\ findings = startStore.findings

\* the unregistered url was scanned over a store that an earlier scan filled
C10_Witness ==
    /\ mode.kind = "single"
    /\ mode.url \notin repositories
    /\ main = "returned"
    /\ scanErr
    /\ scanned_commits # {}

\* ------------------------------------------------------------------ C11
\* the scanCommit goroutines that have been started and have not returned
RunningScanCommits ==
    {p \in Registered \X HashSet : worker[p[1]][p[2]].pc = "running"}

\* C11: at every moment the number of scanCommit executions in progress,
\* over all repositories together, is at most the configured pool size.
C11_AtMostPoolSizeWorkers == Cardinality(RunningScanCommits) <= PoolSize

\* ------------------------------------------------------------------ C12
\* the results the scanCommit goroutine of (u, hash) has sent so far
SentBy(u, hash) == SubSeq(Job(u, hash), 1, worker[u][hash].sent)

\* the positions of SentBy(u, hash) that hold the attempted result of a type
AttemptedAt(u, hash, name) ==
    {k \in 1..Len(SentBy(u, hash)) :
        ~SentBy(u, hash)[k].hasFinding /\ SentBy(u, hash)[k].st = name}

\* the positions of SentBy(u, hash) that hold a finding of a type
FindingsAt(u, hash, name) ==
    {k \in 1..Len(SentBy(u, hash)) :
        SentBy(u, hash)[k].hasFinding /\ SentBy(u, hash)[k].finding.SecretType = name}

\* C12: a secret type whose pattern does not compile is skipped and nothing
\* else: when a scanCommit has returned, every secret type of its job whose
\* pattern compiles has been attempted on the commit.
C12_CompileFailureSkipsOnlyThatType ==
    \A u \in Registered, h \in HashSet :
        worker[u][h].pc = "done" =>
            \A i \in 1..Len(enum[u].types) :
                Compiles(enum[u].types[i].Regex) =>
                    AttemptedAt(u, h, enum[u].types[i].Name) # {}

\* ------------------------------------------------------------------ C13
\* C13: within one run the aggregator calls AddScannedCommit once per
\* (repository, commit), not once per secret type and not once per finding:
\* no (repository, commit) sees a second call.  (That the call comes after
\* all types is C1, that it comes at all is C3.)
C13_MarkedOncePerCommit ==
    \A u \in Registered, h \in HashSet : markCalls[u][h] <= 1

\* ------------------------------------------------------------------ C14
\* C14: between any two commands of a sequence of scans and secret-type
\* registrations, every registered secret type (whose pattern compiles) has
\* been attempted on every commit that is in the scanned-commit set.
C14_EveryTypeAppliedToScanned ==
    main = "idle" =>
        \A m \in scanned_commits :
            \A i \in 1..Len(secret_types) :
                Compiles(secret_types[i].Regex) =>
                    <<m.repository, m.commit_hash, secret_types[i].Name>> \in observed

\* ------------------------------------------------------------------ C15
\* C15: a scanCommit that has returned has sent, for every secret type of its
\* job, exactly one attempted result (also when the type matches nothing) and
\* one finding result per match of the type in the commit.
C15_OneAttemptedPerTypePlusFindings ==
    \A u \in Registered, h \in HashSet :
        worker[u][h].pc = "done" =>
            \A i \in 1..Len(enum[u].types) :
                /\ Cardinality(AttemptedAt(u, h, enum[u].types[i].Name)) = 1
                /\ Cardinality(FindingsAt(u, h, enum[u].types[i].Name))
                       = Len(Grep(h, enum[u].types[i].Regex))

\* ------------------------------------------------------------------ C16
\* scanRepo of u has walked the whole log
Walked(u) == enum[u].pc \in {"waiting", "done"}

\* C16: within one run no commit is handed to scanCommit twice, only commits
\* that were unscanned at the start of the run are handed over, once the log
\* of a repository is walked each of its unscanned commits has its one
\* scanCommit, and when scanRepo returns every scanCommit it started has run
\* to its end.
C16_OneJobPerUnscannedCommit ==
    \A u \in Registered, h \in HashSet :
        /\ started[u][h] <= 1
        /\ started[u][h] = 1 => h \in Unscanned(u)
        /\ Walked(u) => (h \in Unscanned(u) => started[u][h] = 1)
        /\ enum[u].pc = "done" => (started[u][h] = 1 => worker[u][h].pc = "done")

\* a ScanAll has returned after two jobs of one repository and one of the other
C16_Witness ==
    /\ main = "returned"
    /\ mode.kind = "all"
    /\ \E u, v \in Registered :
          /\ u # v
          /\ Cardinality(Unscanned(u)) = 2
          /\ Cardinality(Unscanned(v)) = 1
          /\ \A w \in {u, v} : enum[w].pc = "done"
          /\ \A h \in Unscanned(u) : started[u][h] = 1 /\ worker[u][h].pc = "done"
          /\ \A h \in Unscanned(v) : started[v][h] = 1 /\ worker[v][h].pc = "done"

\* ------------------------------------------------------------------ C17
\* scanRepo of u left on an error that is not the clone error
OtherErrorOf(u) == enum[u].pc \in {"failed", "panicked"} /\ enum[u].cloned # "fail"

\* C17: in a ScanAll, a scanRepo that meets an error other than the clone
\* error (query of the scanned commits, MkdirTemp, Head, Log, list of secret
\* types) returns it and nothing more ends: the process goes on, the wait group
\* counts the scans still running, and when ScanAll has returned every
\* repository that was enumerated has had all its scanCommit.
C17_RepoErrorIsolated ==
    (mode.kind = "all" /\ \E u \in Registered : OtherErrorOf(u)) =>
        /\ \A u \in Registered : OtherErrorOf(u) => enum[u].pc = "failed"
        /\ ~panicked
        /\ main # "crashed"
        /\ main = "waiting" =>
             wg = Cardinality({u \in Registered :
                                 ScanRepoRunning(u)})
        /\ main = "returned" =>
             \A u \in Registered :
                Walked(u) =>
                    /\ enum[u].pc = "done"
                    /\ \A h \in Unscanned(u) : worker[u][h].pc = "done"

\* ------------------------------------------------------------------ C18
\* the marker writes of the current process for (u, hash) that were dropped
DroppedMarkers(u, hash) ==
    {d \in dropped : /\ d.table = "scanned_commits" /\ d.run = run
                     /\ d.repoUrl = u /\ d.commitHash = hash}

\* C18: a write the aggregator loses to a store error takes nothing else with
\* it: the process goes on, a commit with a marker call that was not dropped
\* has its marker, the aggregator still reaches the end of the channel with
\* nothing in hand, and a commit of which a marker write was dropped in the
\* previous run is handed to scanCommit again when the next run walks its
\* repository.
C18_WriteErrorDropsOnlyThatWrite ==
    /\ dropped # {} => main # "crashed"
    /\ \A u \in Registered, h \in HashSet :
          markCalls[u][h] > Cardinality(DroppedMarkers(u, h)) =>
              MarkerRows(scanned_commits, u, h) # {}
    /\ agg.pc = "stopped" => agg.res = <<>>
    /\ \A d \in dropped :
          (/\ d.table = "scanned_commits"
           /\ d.run + 1 = run
           /\ Walked(d.repoUrl)) => started[d.repoUrl][d.commitHash] = 1

\* ------------------------------------------------------------------ C19
\* scanRepo of u has returned, by its end or on an error
Left(u) == enum[u].pc \in {"done", "failed", "panicked"}

\* C19: a scanRepo that has returned, on whichever path (clone error, Head,
\* Log or secret-type error, or its normal end), has left no temporary
\* directory behind, and the directory of a scanRepo serves that scan alone:
\* it exists only while its own scanRepo runs, the scanCommit goroutines of
\* a repository run while the directory of their own scanRepo is there, and
\* no two scanRepo hold the same directory.
C19_WorkspaceRemovedOnEveryExit ==
    /\ \A u \in Registered :
          /\ Left(u) => enum[u].ws # "created"
          /\ enum[u].ws = "created" =>
                /\ enum[u].pc \in {"cloning", "head", "log", "types", "enumerating",
                                   "waiting"}
                /\ enum[u].dir \in DirNames
          /\ (Scanning /\ \E h \in HashSet : worker[u][h].pc = "running") =>
                 enum[u].ws = "created"
    /\ \A u, v \in Registered :
          (u # v /\ enum[u].ws = "created" /\ enum[v].ws = "created") =>
              enum[u].dir # enum[v].dir

\* in a ScanAll one scanRepo has left after its clone on an error, its
\* directory removed, and the other has since made its own directory under
\* the name that became free and runs a scanCommit in it
C19_Witness ==
    /\ main = "waiting"
    /\ mode.kind = "all"
    /\ \E u, v \in Registered :
          /\ u # v
          /\ enum[u].pc = "failed" /\ enum[u].cloned = "ok" /\ enum[u].ws = "removed"
          /\ enum[v].ws = "created" /\ enum[v].dir \in DirNames
          /\ \E h \in Unscanned(v) : worker[v][h].pc = "running"

\* ------------------------------------------------------------------ C20
\* scanCommit of (u, hash) has a result to send
Sending(u, hash) ==
    worker[u][hash].pc = "running" /\ worker[u][hash].sent < Len(Job(u, hash))

\* C20: in ScanAll and in ScanSingleRepo the aggregator is started before any
\* scanRepo: whenever a scanRepo goroutine exists the aggregator exists, and
\* whenever a scanCommit has a result to send the aggregator is in its loop,
\* waiting to receive or storing the result it received, on an open channel.
C20_AggregatorStartedFirst ==
    Scanning =>
        /\ \A u \in Registered : enum[u].pc # "none" => agg.pc # "none"
        /\ \A u \in Registered, h \in HashSet :
              Sending(u, h) =>
                  /\ agg.pc \in {"waiting", "received", "marked"}
                  /\ ~chanClosed

\* a scanCommit is blocked in its send while the aggregator stores the result
\* of another
C20_Witness ==
    /\ Scanning
    /\ agg.pc = "received"
    /\ \E u \in Registered, h \in HashSet :
          /\ Sending(u, h)
          /\ <<agg.res.repoUrl, agg.res.commitHash>> # <<u, h>>

\* ------------------------------------------------------------------ C21
\* C21: the result channel is closed by the orchestrator and by nothing else:
\* the step that closes it is the step in which ScanAll or ScanSingleRepo
\* leaves wg.Wait() and returns, a step of the aggregator never closes it,
\* and the aggregator has stopped only when the channel is closed.
C21_OnlyOrchestratorCloses ==
    /\ [][(~chanClosed /\ chanClosed') =>
             (main = "waiting" /\ main' = "returned" /\ agg' = agg)]_vars
    /\ [](agg.pc = "stopped" => chanClosed)

\* the aggregator has stored results, the orchestrator has closed the channel
\* and the aggregator has left its loop
C21_Witness ==
    /\ agg.pc = "stopped"
    /\ chanClosed
    /\ main = "returned"
    /\ \E m \in scanned_commits : m.last_scanned_ts = Now

\* ------------------------------------------------------------------ C22
\* no row of the store is lost or changed by the step
RowsKept ==
    /\ repositories \subseteq repositories'
    /\ Len(secret_types) <= Len(secret_types')
    /\ \A i \in 1..Len(secret_types) : secret_types'[i] = secret_types[i]
    /\ scanned_commits \subseteq scanned_commits'
    /\ findings \subseteq findings'

\* C22: no step of a scan removes or changes a row of repositories,
\* secret_types, scanned_commits or findings, each key has one row, and so a
\* marker or finding that was there when a run started is there unchanged,
\* with its timestamp, after it, also when the run inserted its key again.
C22_RecordsOnlyGrow ==
    /\ [][RowsKept]_vars
    /\ [](\A m, n \in scanned_commits :
              (m.repository = n.repository /\ m.commit_hash = n.commit_hash) => m = n)
    /\ [](\A x, y \in findings : FindingKey(x) = FindingKey(y) => x = y)
    /\ [](startStore.markers \subseteq scanned_commits
          /\ startStore.findings \subseteq findings)

\* the second run has inserted again, without a write error, the key of a
\* finding the first run stored, and the row still has the first timestamp
C22_Witness ==
    /\ run = 2
    /\ \A d \in dropped : d.run = 1
    /\ \E res \in sentLog :
          /\ res.hasFinding
          /\ ~InHand(res)
          /\ \E x \in startStore.findings :
                /\ FindingKey(x) = <<res.repoUrl, res.commitHash>>
                /\ x.last_scanned_ts = 1
                /\ x \in findings

\* ------------------------------------------------------------------ C23
\* C23: under fair scheduling, with every store and git operation returning
\* (with an error or without), every scanRepo that ScanAll started reaches
\* its end, done or failed, and ScanAll returns: no interleaving of scanRepo,
\* scanCommit and the aggregator blocks for ever on the channel or on a wait
\* group, and no scan ends in another way.
C23_ScanAllTerminates ==
    /\ (mode.kind = "all" /\ main = "waiting")
           ~> (main = "returned"
               /\ \A u \in repositories : enum[u].pc \in {"done", "failed"})

\* ------------------------------------------------------------------ C24
\* C24: the step that removes the temporary directory of a repository finds
\* every scanCommit started for the repository in this run returned, and no
\* scanCommit is running on a directory that has been removed.
C24_WorkspaceOutlivesWorkers ==
    /\ [][\A u \in Registered :
             (enum[u].ws = "created" /\ enum'[u].ws = "removed") =>
                 \A h \in HashSet :
                     /\ worker[u][h].pc # "running"
                     /\ started[u][h] = 1 => worker[u][h].pc = "done"]_vars
    /\ [](\A u \in Registered :
             enum[u].ws = "removed" =>
                 \A h \in HashSet : worker[u][h].pc # "running")

\* the directory of a repository is removed after its two scanCommit returned
C24_Witness ==
    \E u \in Registered :
        /\ enum[u].ws = "removed"
        /\ enum[u].pc = "done"
        /\ Cardinality({h \in HashSet : started[u][h] = 1}) = 2
        /\ \A h \in HashSet : started[u][h] = 1 => worker[u][h].pc = "done"

\* ------------------------------------------------------------------ C25
\* C25: every Add has its one Done on every way out: the wait group of the
\* orchestrator counts the scanRepo goroutines that have not returned, the
\* wait group of a scanRepo counts its scanCommit goroutines that have not
\* returned, so no counter goes below zero and a counter is zero as soon as
\* the goroutines it waits for have returned.
C25_DoneMatchesAdd ==
    /\ wg = Cardinality({u \in Registered :
                           ScanRepoRunning(u)})
    /\ \A u \in Registered :
          enum[u].wgc = Cardinality({h \in HashSet : worker[u][h].pc = "running"})

\* a ScanAll has returned in which one scanRepo left on an error after its
\* clone and a scanCommit of the other returned early on the error of a Grep
C25_Witness ==
    /\ mode.kind = "all"
    /\ main = "returned"
    /\ wg = 0
    /\ \E u, v \in Registered :
          /\ enum[u].pc = "failed" /\ enum[u].cloned = "ok"
          /\ enum[v].pc = "done" /\ enum[v].wgc = 0
          /\ enum[v].types # <<>>
          /\ \E h \in HashSet :
                /\ started[v][h] = 1
                /\ worker[v][h].pc = "done"
                /\ worker[v][h].grepErr > 0

\* ------------------------------------------------------------------ C26
\* C26: in any sequence of scans on one Scanner the result channel is closed
\* once at most and nothing is sent on it once it is closed: no scan ends in
\* the panic of a second close or of a send on the closed channel, and a scan
\* that follows another on the same Scanner returns as the first did.
C26_ChannelClosedOnce == ~panicked

\* ------------------------------------------------------------------ C27
\* C27: whatever a caller passes to WorkingDirectory and RepoPattern, the
\* Scanner keeps the working directory "." and the empty pattern NewScanner
\* gave it, and every scanRepo after the calls asks os.MkdirTemp for its
\* directory with these two values.
C27_SettersChangeNothing ==
    /\ config = NewScannerConfig
    /\ \A u \in Registered :
          enum[u].mk # <<>> => enum[u].mk = MkdirTempArgs(NewScannerConfig)

\* the caller asked for /tmp and repo-*, and a scanRepo after that has made
\* its directory
C27_Witness ==
    /\ asked = [workingDirectory |-> "/tmp", repoPattern |-> "repo-*"]
    /\ \E u \in Registered :
          /\ enum[u].ws = "created"
          /\ enum[u].mk = [dir |-> ".", pattern |-> ""]

====
